---- MODULE Spec2Model ----
(***************************************************************************)
(* Model of collections_module.py: the five containers of Python's         *)
(* `collections` module that the script builds and drives (deque, Counter, *)
(* defaultdict, OrderedDict, ChainMap), each with the operations the       *)
(* script calls on it, and the script's own functions                      *)
(* (demo_deque_operations, analyze_frequencies, build_index,               *)
(* ordered_dict_example, combine_configs) as operators over them.          *)
(*                                                                         *)
(* A dict is a function whose DOMAIN is its key set; a list is a sequence. *)
(* An operation is an operator from the container (and arguments) to a     *)
(* record holding the container afterwards, the value returned (<<>> when  *)
(* none, <<v>> otherwise) and the exception raised ("none" when none).     *)
(***************************************************************************)
EXTENDS Integers, Sequences, FiniteSets, TLC

VARIABLES
    component,   \* which container the caller is driving
    dq,          \* deque: its items, left to right
    maxlen,      \* deque: <<>> for maxlen=None, <<c>> for maxlen=c
    ref,         \* the reference list the deque is compared with
    refret,      \* what the reference list's last operation returned
    data,        \* Counter: the iterable given to analyze_frequencies
    pos,         \* Counter: how many items of data have been counted
    ctr,         \* Counter: its items (element, count) in insertion order
    dd,          \* defaultdict: key -> list
    calls,       \* defaultdict: key -> times the factory ran for a miss on it
    pairs,       \* build_index: its argument
    pi,          \* build_index: how many pairs the loop has taken
    od,          \* OrderedDict: [map: key -> value, order: keys first to last]
    maps,        \* ChainMap: its list of dicts, maps[1] searched first
    last         \* the call just made: [op, args, before, ret, err]

dequeVars == <<dq, maxlen, ref, refret>>
counterVars == <<data, pos, ctr>>
ddVars == <<dd, calls, pairs, pi>>
vars == <<component, dq, maxlen, ref, refret, data, pos, ctr, dd, calls, pairs, pi,
          od, maps, last>>

\* ------------------------------------------------------------------ bounds
MaxElem == 2        \* deque items are drawn from 1..MaxElem
MaxLen == 3         \* an unbounded deque is driven up to this length
MaxCap == 2         \* maxlen values tried: 1..MaxCap
MaxData == 4        \* longest iterable counted
MaxK == 3           \* most_common(n) is called with n in 0..MaxK
MaxPairs == 3       \* longest list of pairs given to build_index
MaxItem == 2        \* values of pairs and dict values are drawn from 1..MaxItem
MaxGroup == 2       \* a defaultdict's lists are driven up to this length
MaxLayers == 2      \* a ChainMap is built over 1..MaxLayers dicts

\* A call as `last` records it: the operation, its arguments, the container
\* before the call, what the call returned and the exception it raised.
NoCall == [op |-> "init", args |-> <<>>, before |-> <<>>, ret |-> <<>>, err |-> "none"]
Call(op, args, before, r) ==
    [op |-> op, args |-> args, before |-> before, ret |-> r.ret, err |-> r.err]

\* ------------------------------------------------------------------- deque
Elems == 1..MaxElem
None == <<>>

\* append as it would be if a full deque dropped on the side it was pushed on.
append_drop_right(d, m, x) ==
    LET added == [i \in 1..(Len(d) + 1) |-> IF i <= Len(d) THEN d[i] ELSE x]
        trim == m # None /\ Len(added) > m[1]
    IN [d |-> IF trim THEN [i \in 1..(Len(added) - 1) |-> added[i]] ELSE added,
        ret |-> <<>>, err |-> "none"]

\* deque.append(x): the item goes in on the right; a deque longer than its
\* maxlen then drops its leftmost item.
append(d, m, x) ==
    LET added == [i \in 1..(Len(d) + 1) |-> IF i <= Len(d) THEN d[i] ELSE x]
        trim == m # None /\ Len(added) > m[1]
    IN [d |-> IF trim THEN [i \in 1..(Len(added) - 1) |-> added[i + 1]] ELSE added,
        ret |-> <<>>, err |-> "none"]

\* deque.appendleft(x): the item goes in on the left; a deque longer than its
\* maxlen then drops its rightmost item.
appendleft(d, m, x) ==
    LET added == [i \in 1..(Len(d) + 1) |-> IF i = 1 THEN x ELSE d[i - 1]]
        trim == m # None /\ Len(added) > m[1]
    IN [d |-> IF trim THEN [i \in 1..(Len(added) - 1) |-> added[i]] ELSE added,
        ret |-> <<>>, err |-> "none"]

\* deque.pop(): removes and returns the rightmost item; IndexError when empty.
pop(d) ==
    IF Len(d) = 0
    THEN [d |-> d, ret |-> <<>>, err |-> "IndexError"]
    ELSE [d |-> [i \in 1..(Len(d) - 1) |-> d[i]], ret |-> <<d[Len(d)]>>, err |-> "none"]

\* popleft as it would be if it returned the leftmost item and removed the
\* rightmost.
popleft_removes_right(d) ==
    IF Len(d) = 0
    THEN [d |-> d, ret |-> <<>>, err |-> "IndexError"]
    ELSE [d |-> [i \in 1..(Len(d) - 1) |-> d[i]], ret |-> <<d[1]>>, err |-> "none"]

\* deque.popleft(): removes and returns the leftmost item; IndexError when empty.
popleft(d) ==
    IF Len(d) = 0
    THEN [d |-> d, ret |-> <<>>, err |-> "IndexError"]
    ELSE [d |-> [i \in 1..(Len(d) - 1) |-> d[i + 1]], ret |-> <<d[1]>>, err |-> "none"]

\* demo_deque_operations(): the list it returns.
demo_deque_operations ==
    LET d0 == <<1, 2, 3>>
        d1 == append(d0, None, 4).d
        d2 == appendleft(d1, None, 0).d
        d3 == pop(d2).d
        d4 == popleft(d3).d
    IN d4

\* A push is offered while the deque has room or is bounded by maxlen.
CanPush == maxlen # None \/ Len(dq) < MaxLen

DequeAppend ==
    /\ component = "deque"
    /\ CanPush
    /\ \E x \in Elems :
         LET r == append(dq, maxlen, x) IN
         /\ dq' = r.d
         /\ last' = Call("append", <<x>>, dq, r)
         /\ ref' = IF maxlen = None THEN Append(ref, x) ELSE ref
         /\ refret' = <<>>
    /\ UNCHANGED <<component, maxlen, counterVars, ddVars, od, maps>>

DequeAppendLeft ==
    /\ component = "deque"
    /\ CanPush
    /\ \E x \in Elems :
         LET r == appendleft(dq, maxlen, x) IN
         /\ dq' = r.d
         /\ last' = Call("appendleft", <<x>>, dq, r)
         /\ ref' = IF maxlen = None THEN <<x>> \o ref ELSE ref
         /\ refret' = <<>>
    /\ UNCHANGED <<component, maxlen, counterVars, ddVars, od, maps>>

DequePop ==
    /\ component = "deque"
    /\ LET r == pop(dq) IN
         /\ dq' = r.d
         /\ last' = Call("pop", <<>>, dq, r)
    /\ ref' = IF maxlen = None /\ ref # <<>> THEN SubSeq(ref, 1, Len(ref) - 1) ELSE ref
    /\ refret' = IF maxlen = None /\ ref # <<>> THEN <<ref[Len(ref)]>> ELSE <<>>
    /\ UNCHANGED <<component, maxlen, counterVars, ddVars, od, maps>>

DequePopLeft ==
    /\ component = "deque"
    /\ LET r == popleft(dq) IN
         /\ dq' = r.d
         /\ last' = Call("popleft", <<>>, dq, r)
    /\ ref' = IF maxlen = None /\ ref # <<>> THEN Tail(ref) ELSE ref
    /\ refret' = IF maxlen = None /\ ref # <<>> THEN <<Head(ref)>> ELSE <<>>
    /\ UNCHANGED <<component, maxlen, counterVars, ddVars, od, maps>>


\* ----------------------------------------------------------------- Counter
Symbols == {"a", "b", "c"}
SeqsUpTo(S, n) == UNION {[1..m -> S] : m \in 0..n}
Min(a, b) == IF a <= b THEN a ELSE b

\* One turn of Counter's counting loop: self[elem] = self.get(elem, 0) + 1.
\* A dict keeps its keys in insertion order, and assigning to a key that is
\* there keeps its place.
count_elem(c, e) ==
    IF \E i \in 1..Len(c) : c[i][1] = e
    THEN [i \in 1..Len(c) |-> IF c[i][1] = e THEN <<e, c[i][2] + 1>> ELSE c[i]]
    ELSE Append(c, <<e, 1>>)

\* Counter(data): the loop over the whole iterable.
RECURSIVE Counter(_)
Counter(s) ==
    IF s = <<>> THEN <<>>
    ELSE count_elem(Counter(SubSeq(s, 1, Len(s) - 1)), s[Len(s)])

\* The sort as it would be if it were not stable: an item goes in front of
\* the items of its own count.
insert_by_count_unstable(s, it) ==
    LET p == Cardinality({i \in 1..Len(s) : s[i][2] > it[2]})
    IN SubSeq(s, 1, p) \o <<it>> \o SubSeq(s, p + 1, Len(s))

\* Where a stable sort by count, largest first, puts one more item: behind
\* every item whose count is at least its own.
insert_by_count(s, it) ==
    LET p == Cardinality({i \in 1..Len(s) : s[i][2] >= it[2]})
    IN SubSeq(s, 1, p) \o <<it>> \o SubSeq(s, p + 1, Len(s))

\* sorted(items, key=itemgetter(1), reverse=True)
RECURSIVE sorted_by_count(_)
sorted_by_count(items) ==
    IF items = <<>> THEN <<>>
    ELSE insert_by_count(sorted_by_count(SubSeq(items, 1, Len(items) - 1)),
                         items[Len(items)])

\* Counter.most_common(n) for an integer n: heapq.nlargest(n, items, key=count),
\* which is sorted(items, key=count, reverse=True)[:n].
most_common(c, n) ==
    LET s == sorted_by_count(c) IN SubSeq(s, 1, Min(n, Len(s)))

\* analyze_frequencies("abracadabra"): what its most_common(2) prints.
abracadabra == <<"a", "b", "r", "a", "c", "a", "d", "a", "b", "r", "a">>
analyze_frequencies == most_common(Counter(abracadabra), 2)

CounterCount ==
    /\ component = "counter"
    /\ pos < Len(data)
    /\ ctr' = count_elem(ctr, data[pos + 1])
    /\ pos' = pos + 1
    /\ last' = Call("count", <<data[pos + 1]>>, ctr, [ret |-> <<>>, err |-> "none"])
    /\ UNCHANGED <<component, data, dequeVars, ddVars, od, maps>>

CounterMostCommon ==
    /\ component = "counter"
    /\ pos = Len(data)
    /\ \E n \in 0..MaxK :
         last' = Call("most_common", <<n>>, ctr, [ret |-> <<most_common(ctr, n)>>, err |-> "none"])
    /\ UNCHANGED <<component, counterVars, dequeVars, ddVars, od, maps>>

\* ------------------------------------------------------------- defaultdict
GroupKeys == {"a", "b", "c"}
DDKeys == {"a", "b"}          \* the keys the defaultdict's own calls are tried with
Items == 1..MaxItem
EmptyDict == [k \in {} |-> 0]
dict_setitem(d, k, v) == [x \in (DOMAIN d) \cup {k} |-> IF x = k THEN v ELSE d[x]]
dict_delitem(d, k) == [x \in (DOMAIN d) \ {k} |-> d[x]]

\* The default factory, list: a new empty list.
factory == <<>>

\* __getitem__ as it would be if the default were built before the lookup
\* (as d.setdefault(key, factory()) builds it): the factory runs on every get.
dd_getitem_eager(d, k) ==
    IF k \in DOMAIN d
    THEN [d |-> d, ret |-> <<d[k]>>, err |-> "none", called |-> 1]
    ELSE [d |-> dict_setitem(d, k, factory), ret |-> <<factory>>, err |-> "none",
          called |-> 1]

\* defaultdict.__getitem__(key): a key that is there gives its value; a
\* missing key goes to __missing__, which calls the factory, stores its result
\* under the key and returns it. called counts the factory's runs.
dd_getitem(d, k) ==
    IF k \in DOMAIN d
    THEN [d |-> d, ret |-> <<d[k]>>, err |-> "none", called |-> 0]
    ELSE [d |-> dict_setitem(d, k, factory), ret |-> <<factory>>, err |-> "none",
          called |-> 1]

\* defaultdict.__setitem__(key, value): dict's own assignment.
dd_setitem(d, k, v) ==
    [d |-> dict_setitem(d, k, v), ret |-> <<>>, err |-> "none", called |-> 0]

\* getExisting(key): a read that never runs the factory; KeyError when the
\* key is missing.
dd_getExisting(d, k) ==
    IF k \in DOMAIN d
    THEN [d |-> d, ret |-> <<d[k]>>, err |-> "none", called |-> 0]
    ELSE [d |-> d, ret |-> <<>>, err |-> "KeyError", called |-> 0]

\* The loop's turn as it would be if it assigned grouped[k] = [v].
index_pair_overwrite(d, k, v) ==
    LET r == dd_getitem(d, k)
    IN [d |-> dict_setitem(r.d, k, <<v>>), ret |-> <<>>, err |-> "none",
        called |-> r.called]

\* grouped[k].append(v): the list grouped[k] gives (made on a miss) grows by v
\* in place.
index_pair(d, k, v) ==
    LET r == dd_getitem(d, k)
    IN [d |-> dict_setitem(r.d, k, Append(r.ret[1], v)), ret |-> <<>>, err |-> "none",
        called |-> r.called]

\* build_index(pairs): the loop over all pairs, then dict(grouped).
RECURSIVE build_index(_)
build_index(ps) ==
    IF ps = <<>> THEN EmptyDict
    ELSE index_pair(build_index(SubSeq(ps, 1, Len(ps) - 1)),
                    ps[Len(ps)][1], ps[Len(ps)][2]).d

demo_pairs == << <<"a", 1>>, <<"b", 2>>, <<"a", 3>>, <<"b", 4>>, <<"c", 5>> >>

Ran(k, r) == [calls EXCEPT ![k] = @ + r.called]

DDGet ==
    /\ component = "defaultdict"
    /\ \E k \in DDKeys :
         LET r == dd_getitem(dd, k) IN
         /\ dd' = r.d
         /\ calls' = Ran(k, r)
         /\ last' = Call("get", <<k>>, <<dd, calls>>, r)
    /\ UNCHANGED <<component, pairs, pi, dequeVars, counterVars, od, maps>>

DDGetExisting ==
    /\ component = "defaultdict"
    /\ \E k \in DDKeys :
         LET r == dd_getExisting(dd, k) IN
         /\ dd' = r.d
         /\ calls' = Ran(k, r)
         /\ last' = Call("getExisting", <<k>>, <<dd, calls>>, r)
    /\ UNCHANGED <<component, pairs, pi, dequeVars, counterVars, od, maps>>

DDSet ==
    /\ component = "defaultdict"
    /\ \E k \in DDKeys, v \in {<<>>} \cup {<<x>> : x \in Items} :
         LET r == dd_setitem(dd, k, v) IN
         /\ dd' = r.d
         /\ calls' = Ran(k, r)
         /\ last' = Call("set", <<k, v>>, <<dd, calls>>, r)
    /\ UNCHANGED <<component, pairs, pi, dequeVars, counterVars, od, maps>>

DDAppend ==
    /\ component = "defaultdict"
    /\ \E k \in DDKeys, v \in Items :
         LET r == index_pair(dd, k, v) IN
         /\ Len(r.d[k]) <= MaxGroup
         /\ dd' = r.d
         /\ calls' = Ran(k, r)
         /\ last' = Call("get_append", <<k, v>>, <<dd, calls>>, r)
    /\ UNCHANGED <<component, pairs, pi, dequeVars, counterVars, od, maps>>

\* One turn of build_index's loop.
BuildIndexStep ==
    /\ component = "build_index"
    /\ pi < Len(pairs)
    /\ LET k == pairs[pi + 1][1]
           v == pairs[pi + 1][2]
           r == index_pair(dd, k, v) IN
         /\ dd' = r.d
         /\ calls' = Ran(k, r)
         /\ last' = Call("get_append", <<k, v>>, <<dd, calls>>, r)
    /\ pi' = pi + 1
    /\ UNCHANGED <<component, pairs, dequeVars, counterVars, od, maps>>

\* return dict(grouped)
BuildIndexReturn ==
    /\ component = "build_index"
    /\ pi = Len(pairs)
    /\ last.op # "build_index"
    /\ last' = Call("build_index", <<pairs>>, <<dd, calls>>, [ret |-> <<dd>>, err |-> "none"])
    /\ UNCHANGED <<component, ddVars, dequeVars, counterVars, od, maps>>

\* ------------------------------------------------------------- OrderedDict
OrderKeys == {"first", "second", "third"}
EmptyOD == [map |-> EmptyDict, order |-> <<>>]

\* Taking a key's link out of the order list.
unlink(s, k) ==
    LET i == CHOOSE j \in 1..Len(s) : s[j] = k
    IN SubSeq(s, 1, i - 1) \o SubSeq(s, i + 1, Len(s))

\* __setitem__ as it would be if a key that is there were linked again at the
\* end.
od_setitem_relinks(o, k, v) ==
    [d |-> [map |-> dict_setitem(o.map, k, v),
            order |-> IF k \in DOMAIN o.map THEN Append(unlink(o.order, k), k)
                      ELSE Append(o.order, k)],
     ret |-> <<>>, err |-> "none"]

\* OrderedDict.__setitem__(key, value): a new key is linked at the end of the
\* order list; then the value is stored.
od_setitem(o, k, v) ==
    [d |-> [map |-> dict_setitem(o.map, k, v),
            order |-> IF k \in DOMAIN o.map THEN o.order ELSE Append(o.order, k)],
     ret |-> <<>>, err |-> "none"]

\* OrderedDict.__delitem__(key): KeyError for a missing key; otherwise the
\* value goes and the key's link is taken out of the order list.
od_delitem(o, k) ==
    IF k \notin DOMAIN o.map
    THEN [d |-> o, ret |-> <<>>, err |-> "KeyError"]
    ELSE [d |-> [map |-> dict_delitem(o.map, k), order |-> unlink(o.order, k)],
          ret |-> <<>>, err |-> "none"]

\* move_to_end as it would be if the key were linked at its new place before
\* the lookup that raises KeyError.
move_to_end_links_first(o, k, atEnd) ==
    IF k \notin DOMAIN o.map
    THEN [d |-> [map |-> o.map,
                 order |-> IF atEnd THEN Append(o.order, k) ELSE <<k>> \o o.order],
          ret |-> <<>>, err |-> "KeyError"]
    ELSE [d |-> [map |-> o.map,
                 order |-> IF atEnd THEN Append(unlink(o.order, k), k)
                                    ELSE <<k>> \o unlink(o.order, k)],
          ret |-> <<>>, err |-> "none"]

\* move_to_end as it would be if the key's old link stayed in the order list.
move_to_end_keeps_link(o, k, atEnd) ==
    IF k \notin DOMAIN o.map
    THEN [d |-> o, ret |-> <<>>, err |-> "KeyError"]
    ELSE [d |-> [map |-> o.map,
                 order |-> IF atEnd THEN Append(o.order, k) ELSE <<k>> \o o.order],
          ret |-> <<>>, err |-> "none"]

\* OrderedDict.move_to_end(key, last): KeyError for a missing key; otherwise
\* the key's link is taken out and put back at the end (last=True) or at the
\* front (last=False).
move_to_end(o, k, atEnd) ==
    IF k \notin DOMAIN o.map
    THEN [d |-> o, ret |-> <<>>, err |-> "KeyError"]
    ELSE [d |-> [map |-> o.map,
                 order |-> IF atEnd THEN Append(unlink(o.order, k), k)
                                    ELSE <<k>> \o unlink(o.order, k)],
          ret |-> <<>>, err |-> "none"]

\* Iterating an OrderedDict: its (key, value) pairs along the order list.
od_items(o) == [i \in 1..Len(o.order) |-> <<o.order[i], o.map[o.order[i]]>>]

\* ordered_dict_example(): the OrderedDict it returns.
ordered_dict_example ==
    LET o1 == od_setitem(EmptyOD, "first", 1).d
        o2 == od_setitem(o1, "second", 2).d
        o3 == od_setitem(o2, "third", 3).d
        o4 == move_to_end(o3, "first", TRUE).d
        o5 == move_to_end(o4, "third", FALSE).d
    IN o5

ODSet ==
    /\ component = "ordereddict"
    /\ \E k \in OrderKeys, v \in Items :
         LET r == od_setitem(od, k, v) IN
         /\ od' = r.d
         /\ last' = Call("set", <<k, v>>, od, r)
    /\ UNCHANGED <<component, dequeVars, counterVars, ddVars, maps>>

ODDelete ==
    /\ component = "ordereddict"
    /\ \E k \in OrderKeys :
         LET r == od_delitem(od, k) IN
         /\ od' = r.d
         /\ last' = Call("delete", <<k>>, od, r)
    /\ UNCHANGED <<component, dequeVars, counterVars, ddVars, maps>>

ODMoveToEnd ==
    /\ component = "ordereddict"
    /\ \E k \in OrderKeys, atEnd \in BOOLEAN :
         LET r == move_to_end(od, k, atEnd) IN
         /\ od' = r.d
         /\ last' = Call("move_to_end", <<k, atEnd>>, od, r)
    /\ UNCHANGED <<component, dequeVars, counterVars, ddVars, maps>>

\* ---------------------------------------------------------------- ChainMap
CfgKeys == {"theme", "language"}
CfgValues == {"dark", "light", "blue"}

\* ChainMap.__getitem__(key): the maps are tried in order and the first that
\* has the key gives the value; KeyError when none has it.
RECURSIVE lookup(_, _, _)
lookup(ms, k, i) ==
    IF i > Len(ms) THEN [ret |-> <<>>, err |-> "KeyError"]
    ELSE IF k \in DOMAIN ms[i] THEN [ret |-> <<ms[i][k]>>, err |-> "none"]
    ELSE lookup(ms, k, i + 1)

\* __getitem__ as it would be if the maps were merged with later maps
\* overriding earlier ones.
RECURSIVE lookup_back(_, _, _)
lookup_back(ms, k, i) ==
    IF i < 1 THEN [ret |-> <<>>, err |-> "KeyError"]
    ELSE IF k \in DOMAIN ms[i] THEN [ret |-> <<ms[i][k]>>, err |-> "none"]
    ELSE lookup_back(ms, k, i - 1)

cm_getitem_last_wins(ms, k) ==
    LET r == lookup_back(ms, k, Len(ms)) IN [d |-> ms, ret |-> r.ret, err |-> r.err]

cm_getitem(ms, k) ==
    LET r == lookup(ms, k, 1) IN [d |-> ms, ret |-> r.ret, err |-> r.err]

\* __setitem__ as it would be if it wrote to the first map that holds the key.
cm_setitem_where_found(ms, k, v) ==
    LET i == IF \E j \in 1..Len(ms) : k \in DOMAIN ms[j]
             THEN CHOOSE j \in 1..Len(ms) :
                    k \in DOMAIN ms[j] /\ \A h \in 1..(j - 1) : k \notin DOMAIN ms[h]
             ELSE 1
    IN [d |-> [ms EXCEPT ![i] = dict_setitem(@, k, v)], ret |-> <<>>, err |-> "none"]

\* ChainMap.__setitem__(key, value): self.maps[0][key] = value.
cm_setitem(ms, k, v) ==
    [d |-> [ms EXCEPT ![1] = dict_setitem(@, k, v)], ret |-> <<>>, err |-> "none"]

\* The caller's own write to one of the dicts the ChainMap holds.
layer_setitem(ms, i, k, v) ==
    [d |-> [ms EXCEPT ![i] = dict_setitem(@, k, v)], ret |-> <<>>, err |-> "none"]

\* The caller's own del on one of the dicts: KeyError for a missing key.
layer_delitem(ms, i, k) ==
    IF k \notin DOMAIN ms[i]
    THEN [d |-> ms, ret |-> <<>>, err |-> "KeyError"]
    ELSE [d |-> [ms EXCEPT ![i] = dict_delitem(@, k)], ret |-> <<>>, err |-> "none"]

\* combine_configs(overrides, defaults): the ChainMap's maps.
defaults == [k \in {"theme", "language"} |-> IF k = "theme" THEN "light" ELSE "English"]
overrides == [k \in {"theme"} |-> "dark"]
combine_configs(user, default) == <<user, default>>

ChainGet ==
    /\ component = "chainmap"
    /\ \E k \in CfgKeys :
         LET r == cm_getitem(maps, k) IN
         /\ maps' = r.d
         /\ last' = Call("get", <<k>>, maps, r)
    /\ UNCHANGED <<component, dequeVars, counterVars, ddVars, od>>

ChainSet ==
    /\ component = "chainmap"
    /\ \E k \in CfgKeys, v \in CfgValues :
         LET r == cm_setitem(maps, k, v) IN
         /\ maps' = r.d
         /\ last' = Call("set", <<k, v>>, maps, r)
    /\ UNCHANGED <<component, dequeVars, counterVars, ddVars, od>>

LayerSet ==
    /\ component = "chainmap"
    /\ \E i \in 1..Len(maps), k \in CfgKeys, v \in CfgValues :
         LET r == layer_setitem(maps, i, k, v) IN
         /\ maps' = r.d
         /\ last' = Call("layer_set", <<i, k, v>>, maps, r)
    /\ UNCHANGED <<component, dequeVars, counterVars, ddVars, od>>

LayerDelete ==
    /\ component = "chainmap"
    /\ \E i \in 1..Len(maps), k \in CfgKeys :
         LET r == layer_delitem(maps, i, k) IN
         /\ maps' = r.d
         /\ last' = Call("layer_del", <<i, k>>, maps, r)
    /\ UNCHANGED <<component, dequeVars, counterVars, ddVars, od>>

\* --------------------------------------------------------------- the system
Components == {"deque", "counter", "defaultdict", "build_index", "ordereddict", "chainmap"}

Init ==
    /\ component \in Components
    /\ dq = <<>>
    /\ maxlen \in IF component = "deque" THEN {None} \cup {<<c>> : c \in 1..MaxCap}
                  ELSE {None}
    /\ ref = <<>>
    /\ refret = <<>>
    /\ data \in IF component = "counter" THEN SeqsUpTo(Symbols, MaxData) ELSE {<<>>}
    /\ pos = 0
    /\ ctr = <<>>
    /\ dd = EmptyDict
    /\ calls = [k \in GroupKeys |-> 0]
    /\ pairs \in IF component = "build_index" THEN SeqsUpTo(GroupKeys \X Items, MaxPairs)
                 ELSE {<<>>}
    /\ pi = 0
    /\ od = EmptyOD
    /\ maps \in IF component = "chainmap" THEN {[i \in 1..n |-> EmptyDict] : n \in 1..MaxLayers}
                ELSE {<<>>}
    /\ last = NoCall

Next ==
    \/ DequeAppend
    \/ DequeAppendLeft
    \/ DequePop
    \/ DequePopLeft
    \/ CounterCount
    \/ CounterMostCommon
    \/ DDGet
    \/ DDGetExisting
    \/ DDSet
    \/ DDAppend
    \/ BuildIndexStep
    \/ BuildIndexReturn
    \/ ODSet
    \/ ODDelete
    \/ ODMoveToEnd
    \/ ChainGet
    \/ ChainSet
    \/ LayerSet
    \/ LayerDelete

Spec == Init /\ [][Next]_vars

\* ------------------------------------------------------------ the claims
Occurrences(s, e) == Cardinality({j \in 1..Len(s) : s[j] = e})
FirstAt(s, e) == CHOOSE j \in 1..Len(s) : s[j] = e /\ \A i \in 1..(j - 1) : s[i] # e
Distinct(s) == {s[j] : j \in 1..Len(s)}
\* e comes before f in most_common's order over the input s.
Before(s, e, f) ==
    \/ Occurrences(s, e) > Occurrences(s, f)
    \/ Occurrences(s, e) = Occurrences(s, f) /\ FirstAt(s, e) < FirstAt(s, f)
\* The values paired with key k in the pairs ps, in their order.
ValuesOf(ps, k) ==
    LET IsK(p) == p[1] = k
        sel == SelectSeq(ps, IsK)
    IN [i \in 1..Len(sel) |-> sel[i][2]]
\* The sequence s without the key k.
Without(s, k) == LET NotK(x) == x # k IN SelectSeq(s, NotK)
\* The lowest-indexed map of ms holding k.
FirstLayer(ms, k) ==
    CHOOSE i \in 1..Len(ms) : k \in DOMAIN ms[i] /\ \A j \in 1..(i - 1) : k \notin DOMAIN ms[j]

\* C1: ChainMap's set(K, V) changes only the first map, where K then holds V
\* and every other key is as before, every later map is untouched, and a get(K)
\* that follows returns V; over ({theme: dark}, {theme: light, language:
\* English}), set(theme, blue) makes get(theme) blue and leaves the second
\* map's theme light.
C1_SetWritesOnlyFirstLayer ==
    /\ (component = "chainmap" /\ last.op = "set") =>
         LET k == last.args[1]
             v == last.args[2]
             b == last.before
         IN /\ last.err = "none"
            /\ Len(maps) = Len(b)
            /\ \A i \in 2..Len(b) : maps[i] = b[i]
            /\ DOMAIN maps[1] = (DOMAIN b[1]) \cup {k}
            /\ maps[1][k] = v
            /\ \A x \in (DOMAIN b[1]) \ {k} : maps[1][x] = b[1][x]
            /\ cm_getitem(maps, k).ret = <<v>>
    /\ LET c == cm_setitem(combine_configs(overrides, defaults), "theme", "blue").d
       IN /\ cm_getitem(c, "theme").ret = <<"blue">>
          /\ c[2]["theme"] = "light"
          /\ c[2] = defaults

C1_Witness ==
    /\ component = "chainmap"
    /\ last.op = "set" /\ last.args = <<"theme", "blue">>
    /\ Len(maps) = 2
    /\ "theme" \in DOMAIN last.before[1] /\ last.before[1]["theme"] = "dark"
    /\ "theme" \in DOMAIN maps[2] /\ maps[2]["theme"] = "light"
    /\ maps[1]["theme"] = "blue"

\* C2: whatever writes were made through the ChainMap or straight to its
\* dicts, get(K) returns the value of the lowest-indexed map that holds K and
\* raises KeyError when no map holds K, and changes no map; for
\* combine_configs(overrides, defaults) theme is dark and language English.
C2_GetFindsFirstLayer ==
    /\ component = "chainmap" =>
         /\ \A k \in CfgKeys :
              LET r == cm_getitem(maps, k) IN
              IF \E i \in 1..Len(maps) : k \in DOMAIN maps[i]
              THEN r.err = "none" /\ r.ret = <<maps[FirstLayer(maps, k)][k]>> /\ r.d = maps
              ELSE r.err = "KeyError" /\ r.ret = <<>> /\ r.d = maps
         /\ last.op = "get" =>
              /\ maps = last.before
              /\ last.ret = cm_getitem(maps, last.args[1]).ret
              /\ last.err = cm_getitem(maps, last.args[1]).err
    /\ LET c == combine_configs(overrides, defaults)
       IN /\ cm_getitem(c, "theme").ret = <<"dark">>
          /\ cm_getitem(c, "language").ret = <<"English">>

C2_Witness ==
    /\ component = "chainmap"
    /\ Len(maps) = 2
    /\ last.op = "get" /\ last.args = <<"theme">> /\ last.ret = <<"dark">>
    /\ "theme" \in DOMAIN maps[1] /\ maps[1]["theme"] = "dark"
    /\ "theme" \in DOMAIN maps[2] /\ maps[2]["theme"] = "light"

\* C3: a deque with maxlen C >= 1 never holds more than C items; a push onto
\* a full one raises nothing and leaves the items it held less the one at the
\* other end, with the pushed item at the pushed end; a push onto one that is
\* not full drops nothing; with maxlen 3, append of 1, 2, 3, 4 leaves [2, 3, 4].
C3_BoundedDeque ==
    /\ (component = "deque" /\ maxlen # None) =>
         /\ Len(dq) <= maxlen[1]
         /\ last.op = "append" =>
              LET b == last.before
                  x == last.args[1]
              IN /\ last.err = "none"
                 /\ dq = IF Len(b) = maxlen[1] THEN Tail(b) \o <<x>> ELSE b \o <<x>>
         /\ last.op = "appendleft" =>
              LET b == last.before
                  x == last.args[1]
              IN /\ last.err = "none"
                 /\ dq = IF Len(b) = maxlen[1] THEN <<x>> \o SubSeq(b, 1, Len(b) - 1)
                                               ELSE <<x>> \o b
    /\ LET d1 == append(<<>>, <<3>>, 1).d
           d2 == append(d1, <<3>>, 2).d
           d3 == append(d2, <<3>>, 3).d
           d4 == append(d3, <<3>>, 4)
       IN d4.d = <<2, 3, 4>> /\ d4.err = "none"

C3_Witness ==
    /\ component = "deque"
    /\ maxlen = <<2>>
    /\ last.op = "append" /\ last.args = <<1>> /\ last.before = <<1, 2>>
    /\ dq = <<2, 1>>

\* C4: an unbounded deque and the reference list hold the same items in the
\* same order after every sequence of pushes and pops, every pop returns what
\* the reference list's removal returns, and demo_deque_operations returns
\* [1, 2, 3].
C4_DequeMatchesReference ==
    /\ (component = "deque" /\ maxlen = None) =>
         /\ dq = ref
         /\ (last.op \in {"pop", "popleft"} /\ last.before # <<>>) =>
              (last.err = "none" /\ last.ret = refret)
    /\ demo_deque_operations = <<1, 2, 3>>

C4_Witness ==
    /\ component = "deque"
    /\ maxlen = None
    /\ last.op = "popleft" /\ last.ret = <<2>> /\ last.before = <<2, 1, 1>>
    /\ dq = <<1, 1>>
    /\ ref = <<1, 1>>

\* C5: most_common(k) over the counts of any input returns min(k, number of
\* distinct elements) pairs, each an element of the input with its number of
\* occurrences, higher counts first and equal counts in order of first
\* occurrence, and no element left out comes before one returned; for
\* "abracadabra" and k = 2 it returns [('a', 5), ('b', 2)].
C5_MostCommon ==
    /\ (component = "counter" /\ last.op = "most_common") =>
         LET k == last.args[1]
             r == last.ret[1]
             got == {r[i][1] : i \in 1..Len(r)}
         IN /\ Len(r) = Min(k, Cardinality(Distinct(data)))
            /\ \A i \in 1..Len(r) :
                 /\ r[i][1] \in Distinct(data)
                 /\ r[i][2] = Occurrences(data, r[i][1])
            /\ \A i, j \in 1..Len(r) : i < j => Before(data, r[i][1], r[j][1])
            /\ \A e \in Distinct(data) \ got : \A f \in got : Before(data, f, e)
    /\ analyze_frequencies = << <<"a", 5>>, <<"b", 2>> >>

C5_Witness ==
    /\ component = "counter"
    /\ data = <<"c", "b", "a", "b">>
    /\ last.op = "most_common" /\ last.args = <<2>>
    /\ last.ret = << << <<"b", 2>>, <<"c", 1>> >> >>

\* C6: the factory runs once for a get of a missing key, whose result is
\* stored under the key and is what get returns, with every other key as
\* before; it runs for no key more than once; a get of a key that is there,
\* getExisting and set never run it; getExisting of a missing key raises
\* KeyError and makes no entry.
C6_FactoryOncePerMissingKey ==
    component = "defaultdict" =>
      /\ \A k \in GroupKeys : calls[k] <= 1 /\ (calls[k] = 1 => k \in DOMAIN dd)
      /\ last.op \in {"get", "getExisting", "set", "get_append"} =>
           LET k == last.args[1]
               bd == last.before[1]
               bc == last.before[2]
               others == \A x \in (DOMAIN bd) \ {k} : x \in DOMAIN dd /\ dd[x] = bd[x]
           IN /\ last.op = "get" /\ k \notin DOMAIN bd =>
                   /\ calls = [bc EXCEPT ![k] = bc[k] + 1]
                   /\ DOMAIN dd = (DOMAIN bd) \cup {k}
                   /\ dd[k] = <<>>
                   /\ last.ret = <<dd[k]>> /\ last.err = "none"
                   /\ others
              /\ last.op = "get" /\ k \in DOMAIN bd =>
                   calls = bc /\ dd = bd /\ last.ret = <<bd[k]>> /\ last.err = "none"
              /\ last.op = "get_append" =>
                   calls = [bc EXCEPT ![k] = bc[k] + (IF k \in DOMAIN bd THEN 0 ELSE 1)]
              /\ last.op = "getExisting" =>
                   /\ calls = bc /\ dd = bd
                   /\ IF k \in DOMAIN bd THEN last.ret = <<bd[k]>> /\ last.err = "none"
                                        ELSE last.ret = <<>> /\ last.err = "KeyError"
              /\ last.op = "set" =>
                   /\ calls = bc
                   /\ DOMAIN dd = (DOMAIN bd) \cup {k}
                   /\ dd[k] = last.args[2]
                   /\ others

C6_Witness ==
    /\ component = "defaultdict"
    /\ last.op = "get" /\ last.args = <<"a">>
    /\ "a" \notin DOMAIN last.before[1]
    /\ "b" \in DOMAIN last.before[1]
    /\ calls["a"] = 1 /\ calls["b"] = 0
    /\ dd["a"] = <<>> /\ last.ret = << <<>> >>

\* C7: after build_index has taken any number of the pairs, the keys of the
\* map are the keys of the pairs taken and each key holds the values paired
\* with it, in input order; what build_index returns is that map for all the
\* pairs; the pairs [('a',1),('b',2),('a',3),('b',4),('c',5)] give
\* {'a': [1, 3], 'b': [2, 4], 'c': [5]}.
C7_Grouping ==
    /\ component = "build_index" =>
         LET taken == SubSeq(pairs, 1, pi) IN
         /\ DOMAIN dd = {taken[i][1] : i \in 1..Len(taken)}
         /\ \A k \in DOMAIN dd : dd[k] = ValuesOf(taken, k)
         /\ last.op = "build_index" =>
              LET g == last.ret[1] IN
              /\ DOMAIN g = {pairs[i][1] : i \in 1..Len(pairs)}
              /\ \A k \in DOMAIN g : g[k] = ValuesOf(pairs, k)
    /\ LET g == build_index(demo_pairs) IN
       /\ DOMAIN g = {"a", "b", "c"}
       /\ g["a"] = <<1, 3>> /\ g["b"] = <<2, 4>> /\ g["c"] = <<5>>

C7_Witness ==
    /\ component = "build_index"
    /\ pairs = << <<"a", 1>>, <<"b", 2>>, <<"a", 2>> >>
    /\ last.op = "build_index"
    /\ DOMAIN last.ret[1] = {"a", "b"}
    /\ last.ret[1]["a"] = <<1, 2>> /\ last.ret[1]["b"] = <<2>>

\* C8: after any sequence of set, delete and move_to_end, the order list
\* holds every current key once and nothing else, and a move_to_end of a key
\* that is there leaves every key's value as it was.
C8_OrderIsPermutationOfKeys ==
    component = "ordereddict" =>
      /\ {od.order[i] : i \in 1..Len(od.order)} = DOMAIN od.map
      /\ \A i, j \in 1..Len(od.order) : i # j => od.order[i] # od.order[j]
      /\ (last.op = "move_to_end" /\ last.args[1] \in DOMAIN last.before.map) =>
           /\ last.err = "none"
           /\ DOMAIN od.map = DOMAIN last.before.map
           /\ \A k \in DOMAIN od.map : od.map[k] = last.before.map[k]

C8_Witness ==
    /\ component = "ordereddict"
    /\ last.op = "move_to_end" /\ last.args = <<"second", FALSE>>
    /\ last.before.order = <<"third", "second">>
    /\ od.order = <<"second", "third">>
    /\ od.map["second"] = 2 /\ od.map["third"] = 1

\* C9: a call that fails raises its exception and leaves the container as it
\* was: pop and popleft of an empty deque (IndexError), move_to_end of a
\* missing key of an OrderedDict (KeyError), get of a key no map of a ChainMap
\* holds (KeyError), getExisting of a missing key of a defaultdict (KeyError);
\* and no call that raises changes its container.
C9_FailureLeavesContainerUnchanged ==
    /\ (component = "deque" /\ last.op \in {"pop", "popleft"} /\ last.before = <<>>) =>
         last.err = "IndexError" /\ dq = last.before
    /\ (component = "ordereddict" /\ last.op = "move_to_end"
          /\ last.args[1] \notin DOMAIN last.before.map) =>
         last.err = "KeyError" /\ od = last.before
    /\ (component = "chainmap" /\ last.op = "get"
          /\ \A i \in 1..Len(last.before) : last.args[1] \notin DOMAIN last.before[i]) =>
         last.err = "KeyError" /\ maps = last.before
    /\ (component = "defaultdict" /\ last.op = "getExisting"
          /\ last.args[1] \notin DOMAIN last.before[1]) =>
         last.err = "KeyError" /\ dd = last.before[1] /\ calls = last.before[2]
    /\ last.err # "none" =>
         /\ component = "deque" => dq = last.before
         /\ component = "ordereddict" => od = last.before
         /\ component = "chainmap" => maps = last.before
         /\ component = "defaultdict" => dd = last.before[1]

C9_Witness ==
    /\ component = "ordereddict"
    /\ last.op = "move_to_end" /\ last.args = <<"third", FALSE>>
    /\ last.err = "KeyError"
    /\ od.order = <<"first", "second">>

\* C10: move_to_end(k) of a key that is there makes k the last key, and
\* move_to_end(k, last=False) the first, with the other keys in the order they
\* had; set of a key that is there keeps the order and set of a new key puts
\* it last; ordered_dict_example returns the order third, second, first.
C10_RelocationOrder ==
    /\ (component = "ordereddict" /\ last.op = "move_to_end"
          /\ last.args[1] \in DOMAIN last.before.map) =>
         LET k == last.args[1]
             n == Len(od.order)
         IN /\ n = Len(last.before.order)
            /\ od.order[IF last.args[2] THEN n ELSE 1] = k
            /\ Without(od.order, k) = Without(last.before.order, k)
    /\ (component = "ordereddict" /\ last.op = "set") =>
         LET k == last.args[1] IN
         /\ od.map[k] = last.args[2]
         /\ od.order = IF k \in DOMAIN last.before.map THEN last.before.order
                       ELSE last.before.order \o <<k>>
    /\ od_items(ordered_dict_example) = << <<"third", 3>>, <<"second", 2>>, <<"first", 1>> >>

C10_Witness ==
    /\ component = "ordereddict"
    /\ last.op = "move_to_end" /\ last.args = <<"third", FALSE>>
    /\ last.before.order = <<"second", "third", "first">>
    /\ od.order = <<"third", "second", "first">>
====
